---- MODULE Spec2Model ----
(***************************************************************************)
(* Model of fsr.ino: the weighted / Hull moving averages, the per-sensor   *)
(* hysteresis state machine, the serial command protocol and the driver    *)
(* loop.  Bytes are ASCII codes.  TLC integers are 32 bit, so a C          *)
(* `unsigned long` is carried as two 16-bit halves where it can exceed     *)
(* 2^31-1.                                                                 *)
(***************************************************************************)
EXTENDS Integers, Sequences, FiniteSets, TLC

(* ------------------------------ constants ------------------------------ *)

kDefaultThreshold == 200
kWindowSize == 100
kBufferSize == 64
kPaddingWidth == 1
kNumSensors == 4

(* ------------------------------- bounds -------------------------------- *)

\* number of iterations of loop() that are explored
MaxTicks == 3
\* number of chunks the host sends in a run of the bounded specification
MaxArrivals == 2
\* capacity of the transport's receive queue, in bytes
MaxRx == 70
\* number of lines the host sends in a run of the protocol specification
MaxLines == 1
\* the flooding host of LiveSpec sends while fewer bytes than this are queued
MaxQueued == 2

\* largest capacity of the filter that is studied on its own
MaxCap == 3
\* number of samples given to that filter
MaxObserve == 4

\* number of samples given to the Hull filter that is studied on its own
MaxSteps == 80

(* ------------------------- integer conversions ------------------------- *)

TwoPow16 == 65536

\* conversion of an integer to int16_t (two's complement, modulo 2^16)
ToInt16(x) ==
  LET m == x % TwoPow16 IN IF m >= 32768 THEN m - TwoPow16 ELSE m

\* C division of a signed numerator by a positive denominator
TruncDiv(a, b) == IF a >= 0 THEN a \div b ELSE -((-a) \div b)

\* (2^32 + s) \div d for a negative int32 s and d >= 2: the quotient of the
\* division carried out in 32-bit unsigned arithmetic
UDiv32Neg(s, d) ==
  LET M == 2147483647
      b == M + s + 1
  IN  (M \div d) + (b \div d) + (((M % d) + (b % d) + 1) \div d)

Min(a, b) == IF a < b THEN a ELSE b

\* an unsigned long as its two 16-bit halves; n is below 2^31 here
U32(n) == [hi |-> n \div TwoPow16, lo |-> n % TwoPow16]

\* a - b in unsigned 32-bit arithmetic (modulo 2^32)
U32Sub(a, b) ==
  LET borrow == IF a.lo < b.lo THEN 1 ELSE 0
  IN  [ hi |-> (a.hi - b.hi - borrow) % TwoPow16,
        lo |-> (a.lo - b.lo) % TwoPow16 ]

\* sqrt(size) converted to size_t: the integer part of the root
ISqrt(n) == CHOOSE r \in 0..n : r * r <= n /\ (r + 1) * (r + 1) > n

(* ------------------------ WeightedMovingAverage ------------------------ *)

\* values_ keeps the entries 0..size_-1; cur_count_ < size_ never reaches the
\* rest of the array.  Objects of static storage start zeroed.
WeightedMovingAverage(size) ==
  [ size_ |-> Min(size, kWindowSize),
    cur_sum_ |-> 0,
    cur_weighted_sum_ |-> 0,
    values_ |-> [k \in 0..(Min(size, kWindowSize) - 1) |-> 0],
    cur_count_ |-> 0 ]

\* wb is the width of int and size_t of the build: 16 (AVR) or 32 (ARM).
\* size_ * value is computed in unsigned wb-bit arithmetic; with wb = 32 the
\* sum is taken modulo 2^32 and converted back to int32_t, which is the exact
\* value; with wb = 16 the product is reduced modulo 2^16 before it is added.
\* The quotient is signed with wb = 16 and unsigned 32-bit with wb = 32.
WMA_GetAverage(w, value, wb) ==
  LET next_sum == w.cur_sum_ + value - w.values_[w.cur_count_]
      product == IF wb = 16 THEN (w.size_ * value) % TwoPow16
                 ELSE w.size_ * value
      next_weighted_sum == w.cur_weighted_sum_ + product - w.cur_sum_
      weights == IF wb = 16
                 THEN ((w.size_ * (w.size_ + 1)) % TwoPow16) \div 2
                 ELSE (w.size_ * (w.size_ + 1)) \div 2
      quotient == IF wb = 16 \/ next_weighted_sum >= 0
                  THEN TruncDiv(next_weighted_sum, weights)
                  ELSE IF weights = 1 THEN next_weighted_sum
                  ELSE UDiv32Neg(next_weighted_sum, weights)
  IN  [ w |-> [ w EXCEPT !.cur_sum_ = next_sum,
                         !.cur_weighted_sum_ = next_weighted_sum,
                         !.values_ = [@ EXCEPT ![w.cur_count_] = value],
                         !.cur_count_ = (w.cur_count_ + 1) % w.size_ ],
        ret |-> ToInt16(quotient) ]

(* -------------------------- HullMovingAverage -------------------------- *)

HullMovingAverage(size) ==
  [ wma1_ |-> WeightedMovingAverage(size \div 2),
    wma2_ |-> WeightedMovingAverage(size),
    hull_ |-> WeightedMovingAverage(ISqrt(size)) ]

\* HMA_GetAverage whose third filter is given wma2_'s value alone
HMA_GetAverage_noLead(h, value, wb) ==
  LET r1 == WMA_GetAverage(h.wma1_, value, wb)
      r2 == WMA_GetAverage(h.wma2_, value, wb)
      r3 == WMA_GetAverage(h.hull_, ToInt16(r2.ret), wb)
  IN  [ h |-> [wma1_ |-> r1.w, wma2_ |-> r2.w, hull_ |-> r3.w],
        ret |-> r3.ret ]

HMA_GetAverage(h, value, wb) ==
  LET r1 == WMA_GetAverage(h.wma1_, value, wb)
      r2 == WMA_GetAverage(h.wma2_, value, wb)
      r3 == WMA_GetAverage(h.hull_, ToInt16(2 * r1.ret - r2.ret), wb)
  IN  [ h |-> [wma1_ |-> r1.w, wma2_ |-> r2.w, hull_ |-> r3.w],
        ret |-> r3.ret ]

(* ----------------------------- SensorState ----------------------------- *)

\* cur_value_ has no initialiser; the sensors are globals, so it starts 0.
SensorState(pin_value) ==
  [ pin_value_ |-> pin_value,
    state_ |-> "OFF",
    user_threshold_ |-> kDefaultThreshold,
    moving_average_ |-> HullMovingAverage(kWindowSize),
    cur_value_ |-> 0,
    offset_ |-> 0,
    last_trigger_ms_ |-> 0 ]

\* EvaluateSensor with > in place of >= in the press condition
EvaluateSensor_gt(s, sensor_value, button_num, curMillis, wb) ==
  LET avg == HMA_GetAverage(s.moving_average_, ToInt16(sensor_value), wb)
      cur == ToInt16(avg.ret - s.offset_)
      press == cur > s.user_threshold_ + kPaddingWidth /\ s.state_ = "OFF"
      state1 == IF press THEN "ON" ELSE s.state_
      release == cur < s.user_threshold_ - kPaddingWidth /\ state1 = "ON"
      state2 == IF release THEN "OFF" ELSE state1
  IN  [ s |-> [ s EXCEPT !.moving_average_ = avg.h,
                         !.cur_value_ = cur,
                         !.state_ = state2,
                         !.last_trigger_ms_ =
                            IF press THEN curMillis ELSE @ ],
        calls |-> (IF press
                   THEN << [fn |-> "ButtonPress", button_num |-> button_num] >>
                   ELSE << >>)
                  \o
                  (IF release
                   THEN << [fn |-> "ButtonRelease", button_num |-> button_num] >>
                   ELSE << >>),
        hma |-> avg.ret ]

\* EvaluateSensor without the state_ == OFF test of the press condition
EvaluateSensor_repress(s, sensor_value, button_num, curMillis, wb) ==
  LET avg == HMA_GetAverage(s.moving_average_, ToInt16(sensor_value), wb)
      cur == ToInt16(avg.ret - s.offset_)
      press == cur >= s.user_threshold_ + kPaddingWidth
      state1 == IF press THEN "ON" ELSE s.state_
      release == cur < s.user_threshold_ - kPaddingWidth /\ state1 = "ON"
      state2 == IF release THEN "OFF" ELSE state1
  IN  [ s |-> [ s EXCEPT !.moving_average_ = avg.h,
                         !.cur_value_ = cur,
                         !.state_ = state2,
                         !.last_trigger_ms_ =
                            IF press THEN curMillis ELSE @ ],
        calls |-> (IF press
                   THEN << [fn |-> "ButtonPress", button_num |-> button_num] >>
                   ELSE << >>)
                  \o
                  (IF release
                   THEN << [fn |-> "ButtonRelease", button_num |-> button_num] >>
                   ELSE << >>),
        hma |-> avg.ret ]

\* EvaluateSensor without the release branch
EvaluateSensor_noRelease(s, sensor_value, button_num, curMillis, wb) ==
  LET avg == HMA_GetAverage(s.moving_average_, ToInt16(sensor_value), wb)
      cur == ToInt16(avg.ret - s.offset_)
      press == cur >= s.user_threshold_ + kPaddingWidth /\ s.state_ = "OFF"
      state1 == IF press THEN "ON" ELSE s.state_
      release == FALSE
      state2 == IF release THEN "OFF" ELSE state1
  IN  [ s |-> [ s EXCEPT !.moving_average_ = avg.h,
                         !.cur_value_ = cur,
                         !.state_ = state2,
                         !.last_trigger_ms_ =
                            IF press THEN curMillis ELSE @ ],
        calls |-> (IF press
                   THEN << [fn |-> "ButtonPress", button_num |-> button_num] >>
                   ELSE << >>)
                  \o
                  (IF release
                   THEN << [fn |-> "ButtonRelease", button_num |-> button_num] >>
                   ELSE << >>),
        hma |-> avg.ret ]

\* EvaluateSensor with >= in place of < in the release condition
EvaluateSensor_releaseGe(s, sensor_value, button_num, curMillis, wb) ==
  LET avg == HMA_GetAverage(s.moving_average_, ToInt16(sensor_value), wb)
      cur == ToInt16(avg.ret - s.offset_)
      press == cur >= s.user_threshold_ + kPaddingWidth /\ s.state_ = "OFF"
      state1 == IF press THEN "ON" ELSE s.state_
      release == cur >= s.user_threshold_ - kPaddingWidth /\ state1 = "ON"
      state2 == IF release THEN "OFF" ELSE state1
  IN  [ s |-> [ s EXCEPT !.moving_average_ = avg.h,
                         !.cur_value_ = cur,
                         !.state_ = state2,
                         !.last_trigger_ms_ =
                            IF press THEN curMillis ELSE @ ],
        calls |-> (IF press
                   THEN << [fn |-> "ButtonPress", button_num |-> button_num] >>
                   ELSE << >>)
                  \o
                  (IF release
                   THEN << [fn |-> "ButtonRelease", button_num |-> button_num] >>
                   ELSE << >>),
        hma |-> avg.ret ]

\* One call of EvaluateSensor with the sample analogRead returned.  calls is
\* the sequence of actuation calls it makes, hma the filter's return value.
\* The difference of the filter's value and the offset is stored in an
\* int16_t; in the runs explored here it never leaves the int16_t range.
EvaluateSensor(s, sensor_value, button_num, curMillis, wb) ==
  LET avg == HMA_GetAverage(s.moving_average_, ToInt16(sensor_value), wb)
      cur == ToInt16(avg.ret - s.offset_)
      press == cur >= s.user_threshold_ + kPaddingWidth /\ s.state_ = "OFF"
      state1 == IF press THEN "ON" ELSE s.state_
      release == cur < s.user_threshold_ - kPaddingWidth /\ state1 = "ON"
      state2 == IF release THEN "OFF" ELSE state1
  IN  [ s |-> [ s EXCEPT !.moving_average_ = avg.h,
                         !.cur_value_ = cur,
                         !.state_ = state2,
                         !.last_trigger_ms_ =
                            IF press THEN curMillis ELSE @ ],
        calls |-> (IF press
                   THEN << [fn |-> "ButtonPress", button_num |-> button_num] >>
                   ELSE << >>)
                  \o
                  (IF release
                   THEN << [fn |-> "ButtonRelease", button_num |-> button_num] >>
                   ELSE << >>),
        hma |-> avg.ret ]

\* UpdateThreshold that also presses at once when the value is above the
\* new threshold
UpdateThreshold_immediate(s, new_threshold) ==
  [s EXCEPT !.user_threshold_ = new_threshold,
            !.state_ = IF s.cur_value_ >= new_threshold + kPaddingWidth
                       THEN "ON" ELSE @]

UpdateThreshold(s, new_threshold) ==
  [s EXCEPT !.user_threshold_ = new_threshold]

UpdateOffset(s) == [s EXCEPT !.offset_ = s.cur_value_]

GetCurValue(s) == s.cur_value_

GetThreshold(s) == s.user_threshold_

(* --------------------------- transport bytes --------------------------- *)

\* ASCII codes of the bytes the program and the modelled host use
Ascii ==
  [ nul |-> 0, tab |-> 9, nl |-> 10, cr |-> 13, sp |-> 32, plus |-> 43,
    minus |-> 45, zero |-> 48, nine |-> 57, O |-> 79, T |-> 84, V |-> 86,
    o |-> 111, t |-> 116, v |-> 118, x |-> 120 ]

\* Stream::readBytesUntil(terminator, buffer, length) on the queued bytes:
\* bytes are copied until the terminator (consumed, not stored), until length
\* bytes are stored (the next byte, terminator or not, stays queued), or until
\* the queue runs dry and the read times out.
readBytesUntil(stream, terminator, length) ==
  LET n == Len(stream)
      stops == {k \in 1..n : stream[k] = terminator}
      first == IF stops = {} THEN n + 1
               ELSE CHOOSE k \in stops : \A j \in stops : k <= j
  IN  IF first - 1 >= length
      THEN [data |-> SubSeq(stream, 1, length),
            rest |-> SubSeq(stream, length + 1, n)]
      ELSE IF first <= n
      THEN [data |-> SubSeq(stream, 1, first - 1),
            rest |-> SubSeq(stream, first + 1, n)]
      ELSE [data |-> stream, rest |-> << >>]

IsSpace(c) == c \in {Ascii.sp, 9, 10, 11, 12, 13}

IsDigit(c) == c >= Ascii.zero /\ c <= Ascii.nine

RECURSIVE DigitsValue(_, _)
\* value of the leading run of decimal digits of s, continuing from acc
DigitsValue(s, acc) ==
  IF s = << >> \/ ~IsDigit(Head(s)) THEN acc
  ELSE DigitsValue(Tail(s), 10 * acc + (Head(s) - Ascii.zero))

RECURSIVE SkipSpace(_)
SkipSpace(s) ==
  IF s # << >> /\ IsSpace(Head(s)) THEN SkipSpace(Tail(s)) ELSE s

\* strtoul(str, nullptr, 10) on the NUL-terminated string str: leading white
\* space is skipped, one sign is accepted, the digits are read, and a minus
\* sign negates the value in unsigned long arithmetic.  The result is the
\* 32-bit value as its two 16-bit halves.  (At most 4 bytes are parsed here,
\* so the digits' value is below 10000 and never clamps to ULONG_MAX.)
strtoul(str) ==
  LET nuls == {k \in 1..Len(str) : str[k] = Ascii.nul}
      cstr == IF nuls = {} THEN str
              ELSE SubSeq(str, 1, (CHOOSE k \in nuls : \A j \in nuls : k <= j) - 1)
      s1 == SkipSpace(cstr)
      neg == s1 # << >> /\ Head(s1) = Ascii.minus
      signed == s1 # << >> /\ Head(s1) \in {Ascii.minus, Ascii.plus}
      s2 == IF signed THEN Tail(s1) ELSE s1
      v == DigitsValue(s2, 0)
  IN  IF neg /\ v > 0
      THEN [hi |-> (TwoPow16 - 1) - ((v - 1) \div TwoPow16),
            lo |-> (-v) % TwoPow16]
      ELSE [hi |-> v \div TwoPow16, lo |-> v % TwoPow16]

RECURSIVE DecDigits(_)
DecDigits(n) ==
  IF n < 10 THEN << Ascii.zero + n >>
  ELSE Append(DecDigits(n \div 10), Ascii.zero + (n % 10))

\* Serial.print of an int16_t: its decimal, with a minus sign when negative
print(n) == IF n < 0 THEN << Ascii.minus >> \o DecDigits(-n) ELSE DecDigits(n)

(* --------------------------- SerialProcessor --------------------------- *)

RECURSIVE PrintFields(_, _)
\* the body of the print loops: " " and field i, for i = from .. kNumSensors-1
PrintFields(fields, from) ==
  IF from >= kNumSensors THEN << >>
  ELSE << Ascii.sp >> \o print(fields[from]) \o PrintFields(fields, from + 1)

\* PrintValues that prints the thresholds
PrintValues_thresholds(sensors) ==
  << Ascii.v >>
  \o PrintFields([k \in DOMAIN sensors |-> GetThreshold(sensors[k])], 0)
  \o << Ascii.nl >>

PrintValues(sensors) ==
  << Ascii.v >>
  \o PrintFields([k \in DOMAIN sensors |-> GetCurValue(sensors[k])], 0)
  \o << Ascii.nl >>

PrintThresholds(sensors) ==
  << Ascii.t >>
  \o PrintFields([k \in DOMAIN sensors |-> GetThreshold(sensors[k])], 0)
  \o << Ascii.nl >>

UpdateOffsets(sensors) == [k \in DOMAIN sensors |-> UpdateOffset(sensors[k])]

\* UpdateAndPrintThreshold that prints the report before it updates
UpdateAndPrintThreshold_printFirst(sensors, buffer, bytes_read) ==
  LET sensor_index == buffer[1] - Ascii.zero
      new_threshold == ToInt16(strtoul(Tail(buffer)).lo)
      updated == [sensors EXCEPT
                    ![sensor_index] = UpdateThreshold(@, new_threshold)]
  IN  IF bytes_read < 2 \/ bytes_read > 5
      THEN [sensors |-> sensors, out |-> << >>]
      ELSE IF sensor_index < 0 \/ sensor_index >= kNumSensors
      THEN [sensors |-> sensors, out |-> << >>]
      ELSE [sensors |-> updated, out |-> PrintThresholds(sensors)]

\* UpdateAndPrintThreshold without the lower bound of the length test
UpdateAndPrintThreshold_noLength(sensors, buffer, bytes_read) ==
  LET sensor_index == buffer[1] - Ascii.zero
      new_threshold == ToInt16(strtoul(Tail(buffer)).lo)
      updated == [sensors EXCEPT
                    ![sensor_index] = UpdateThreshold(@, new_threshold)]
  IN  IF bytes_read > 5
      THEN [sensors |-> sensors, out |-> << >>]
      ELSE IF sensor_index < 0 \/ sensor_index >= kNumSensors
      THEN [sensors |-> sensors, out |-> << >>]
      ELSE [sensors |-> updated, out |-> PrintThresholds(updated)]

\* buffer holds the bytes_read bytes of the line.  buffer_[0] - '0' converted
\* to size_t is at least kNumSensors whenever the difference is negative.
UpdateAndPrintThreshold(sensors, buffer, bytes_read) ==
  LET sensor_index == buffer[1] - Ascii.zero
      new_threshold == ToInt16(strtoul(Tail(buffer)).lo)
      updated == [sensors EXCEPT
                    ![sensor_index] = UpdateThreshold(@, new_threshold)]
  IN  IF bytes_read < 2 \/ bytes_read > 5
      THEN [sensors |-> sensors, out |-> << >>]
      ELSE IF sensor_index < 0 \/ sensor_index >= kNumSensors
      THEN [sensors |-> sensors, out |-> << >>]
      ELSE [sensors |-> updated, out |-> PrintThresholds(updated)]

\* the switch of CheckAndMaybeProcessData on a line of at least one byte
Dispatch(sensors, buffer) ==
  IF buffer[1] \in {Ascii.o, Ascii.O}
  THEN [sensors |-> UpdateOffsets(sensors), out |-> << >>]
  ELSE IF buffer[1] \in {Ascii.v, Ascii.V}
  THEN [sensors |-> sensors, out |-> PrintValues(sensors)]
  ELSE IF buffer[1] \in {Ascii.t, Ascii.T}
  THEN [sensors |-> sensors, out |-> PrintThresholds(sensors)]
  ELSE UpdateAndPrintThreshold(sensors, buffer, Len(buffer))

(* -------------------------------- pacing ------------------------------- *)

\* kPeriodMicros is the literal 1000 of setup() and loop()
kPeriodMicros == 1000

\* setup(): delayOverhead = 1000 - (micros() - startMicros), where elapsed is
\* micros() - startMicros.  delayOverhead is unsigned, so the test
\* delayOverhead < 0 that follows is never true and assigns nothing.
SetupOverhead(elapsed) == U32Sub(U32(kPeriodMicros), elapsed)

\* the end of loop(): the test 1000 - delayOverhead - duration > 0 is made in
\* unsigned long and holds for every difference but 0; delayMicroseconds
\* takes an unsigned int, 16 bits wide with wb = 16
PacingDelay(overhead, dur, wb) ==
  LET remaining == U32Sub(U32Sub(U32(kPeriodMicros), overhead), dur)
  IN  IF remaining # U32(0)
      THEN [ called |-> TRUE,
             us |-> IF wb = 16 THEN [hi |-> 0, lo |-> remaining.lo]
                    ELSE remaining ]
      ELSE [ called |-> FALSE, us |-> U32(0) ]

(* ------------------------------ environment ---------------------------- *)

\* the samples given to a filter studied on its own: the ends of the int16_t
\* range, the values around 0 and the largest analogRead value
Samples == {-32768, -1, 0, 1, 1023, 32767}

\* the first sample of a step input: 1000, or the largest analogRead value
StepStarts == {1000, 1023}

\* the sample that may follow: the input stays where it is, and from 1023 it
\* may fall to 0
StepValues(samples) ==
  IF samples = << >> THEN StepStarts
  ELSE IF samples[Len(samples)] = 1023 THEN {1023, 0}
  ELSE {samples[Len(samples)]}

\* micros() - startMicros in setup(): what delayMicroseconds(1000) took, on a
\* clock that counts in steps of 4 microseconds
ElapsedValues == {996, 1000, 1004, 1008, 1100}

\* micros() - startMicros at the end of loop(): what the tick took
DurationValues ==
  {0, 4, 100, 500, 900, 992, 996, 1000, 1004, 1008, 1100, 2000, 70000}

\* the pins whose sensor sees a varying force; the others are left alone
LoadedPins == {0}

\* analogRead(pin): a 10-bit sample.  A loaded sensor sees no force or full
\* force, the others see none.
AnalogValues(pin) == IF pin \in LoadedPins THEN {0, 1023} ELSE {0}

\* 63 bytes with no newline: the start of an overlong line
Filler == [k \in 1..(kBufferSize - 1) |-> Ascii.x]

\* what the host sends in one piece in Spec: "09", "0180", "o" or an empty line
Chunks ==
  { <<48, 57, Ascii.nl>>, <<48, 49, 56, 48, Ascii.nl>>, <<Ascii.o, Ascii.nl>>,
    <<Ascii.nl>> }

\* remainders of a set-threshold line: nothing, "5", "180", "9999", "12345",
\* " 7", "+7", "-5", "x1", "7x"
Remainders ==
  { << >>, <<53>>, <<49, 56, 48>>, <<57, 57, 57, 57>>, <<49, 50, 51, 52, 53>>,
    <<Ascii.sp, 55>>, <<Ascii.plus, 55>>, <<Ascii.minus, 53>>,
    <<Ascii.x, 49>>, <<55, Ascii.x>> }

\* the lines of ProtoSpec: sensor index 0 with every remainder; "3180"; first
\* byte "4", "9", "x" or "-" alone or before "999"; the one-letter commands in
\* both cases; an empty line; a line of 63 bytes, Filler; and a line of 65
\* bytes, Filler then "05"
Lines ==
  { <<48>> \o r \o <<Ascii.nl>> : r \in Remainders }
  \cup { <<51, 49, 56, 48, Ascii.nl>> }
  \cup { <<f>> \o r \o <<Ascii.nl>> :
           f \in {52, Ascii.nine, Ascii.x, Ascii.minus},
           r \in { << >>, <<57, 57, 57>> } }
  \cup { <<c, Ascii.nl>> :
           c \in {Ascii.o, Ascii.O, Ascii.t, Ascii.T, Ascii.v, Ascii.V} }
  \cup { <<Ascii.nl>>, Filler \o <<Ascii.nl>>,
         Filler \o <<48, 53, Ascii.nl>> }

(* -------------------------------- state -------------------------------- *)

VARIABLES
  kSensorStates,   \* the sensors, indexed 0..kNumSensors-1
  wordBits,        \* width of int and size_t of the build (16 or 32)
  rx,              \* bytes received and not yet read (Serial)
  tx,              \* bytes printed to Serial during the current tick
  buffer_,         \* the line last read, up to its terminating NUL
  pc,              \* position in loop(): "loop", "drain" or "eval"
  i,               \* index of the for loop over the sensors
  tick,            \* completed iterations of loop(); stands for millis()
  buttonCalls,     \* ButtonPress / ButtonRelease calls of the current tick
  lastCall,        \* the latest actuation call per button, "none" at start
  reads,           \* analogRead calls per pin during the current tick
  evaluated,       \* sensors evaluated during the current tick, in order
  hmaOut,          \* per sensor, what moving_average_.GetAverage last returned
  arrivals,        \* chunks received so far
  arrivedInDrain,  \* bytes arrived since the current drain step began
  lineFirst,       \* first byte of the host line the head of rx continues, -1 at a line start
  lineLen,         \* bytes of that line already read (capped at kBufferSize)
  delayOverhead,   \* the global delayOverhead, an unsigned long as [hi, lo]
  duration,        \* what loop() last measured as duration, as [hi, lo]
  delayed,         \* the last call of delayMicroseconds in loop(), if any
  wma,             \* a WeightedMovingAverage studied on its own
  wmaRet,          \* what wma.GetAverage last returned
  history,         \* the samples given to the filters studied on their own
  hull,            \* a HullMovingAverage studied on its own
  hullRet,         \* what hull.GetAverage last returned
  hullFirst,       \* number of the first sample at which hullRet >= 900, or 0
  wmaFirst         \* number of the first sample at which wmaRet >= 900, or 0

\* the variables of the specifications that study one function on its own
studyVars ==
  << delayOverhead, duration, delayed, wma, wmaRet, history, hull, hullRet,
     hullFirst, wmaFirst >>

\* the variables of the program other than wordBits and pc
programVars ==
  << kSensorStates, rx, tx, buffer_, i, tick, buttonCalls, lastCall, reads,
     evaluated, hmaOut, arrivals, arrivedInDrain, lineFirst, lineLen >>

vars ==
  << kSensorStates, wordBits, rx, tx, buffer_, pc, i, tick, buttonCalls,
     lastCall, reads, evaluated, hmaOut, arrivals, arrivedInDrain, lineFirst,
     lineLen, delayOverhead, duration, delayed, wma, wmaRet, history, hull,
     hullRet, hullFirst, wmaFirst >>

Sensors == 0..(kNumSensors - 1)

\* the objects of the program as constructed, on either build
Constructed ==
  /\ kSensorStates = [k \in Sensors |-> SensorState(k)]
  /\ wordBits \in {16, 32}
  /\ rx = << >>
  /\ tx = << >>
  /\ buffer_ = << >>
  /\ i = 0
  /\ tick = 0
  /\ buttonCalls = << >>
  /\ lastCall = [b \in 1..kNumSensors |-> "none"]
  /\ reads = [k \in Sensors |-> 0]
  /\ evaluated = << >>
  /\ hmaOut = [k \in Sensors |-> 0]
  /\ arrivals = 0
  /\ arrivedInDrain = FALSE
  /\ lineFirst = -1
  /\ lineLen = 0

\* unsigned long delayOverhead = 0; no pacing has happened yet
Unpaced ==
  /\ delayOverhead = U32(0)
  /\ duration = U32(0)
  /\ delayed = [called |-> FALSE, us |-> U32(0)]

\* no filter is studied on its own
NoFilter ==
  /\ wma = << >>
  /\ wmaRet = 0
  /\ history = << >>
  /\ hull = << >>
  /\ hullRet = 0
  /\ hullFirst = 0
  /\ wmaFirst = 0

\* loop() is about to be entered for the first time
Init == Constructed /\ pc = "loop" /\ Unpaced /\ NoFilter

(* ------------------------------- actions ------------------------------- *)

\* the host's bytes reach the receive queue (at any point of the loop)
Receive(chunk) ==
  /\ Len(rx) + Len(chunk) <= MaxRx
  /\ rx' = rx \o chunk
  /\ arrivedInDrain' = (arrivedInDrain \/ pc = "drain")
  /\ UNCHANGED << kSensorStates, wordBits, tx, buffer_, pc, i, tick,
                  buttonCalls, lastCall, reads, evaluated, hmaOut, lineFirst,
                  lineLen >>
  /\ UNCHANGED studyVars

Arrive ==
  /\ arrivals < MaxArrivals
  /\ arrivals' = arrivals + 1
  /\ \E chunk \in Chunks : Receive(chunk)

\* ProtoSpec's host: a whole line, sent while the program is between two ticks
SendLine ==
  /\ arrivals < MaxLines
  /\ pc = "loop"
  /\ arrivals' = arrivals + 1
  /\ \E line \in Lines : Receive(line)

\* loop() is entered: the drain step begins
LoopStart ==
  /\ pc = "loop"
  /\ tick < MaxTicks
  /\ pc' = "drain"
  /\ tx' = << >>
  /\ buttonCalls' = << >>
  /\ reads' = [k \in Sensors |-> 0]
  /\ evaluated' = << >>
  /\ arrivedInDrain' = FALSE
  /\ UNCHANGED << kSensorStates, wordBits, rx, buffer_, i, tick, lastCall,
                  hmaOut, arrivals, lineFirst, lineLen >>
  /\ UNCHANGED studyVars

\* bookkeeping of a read: which host line the bytes left in rx belong to
ReadTracks(r, consumed) ==
  IF consumed
  THEN lineFirst' = -1 /\ lineLen' = 0
  ELSE /\ lineFirst' = (IF lineFirst = -1 THEN r.data[1] ELSE lineFirst)
       /\ lineLen' = Min(lineLen + Len(r.data), kBufferSize)

\* DrainExit with the for loop over the sensors starting at 1
DrainExit_from1 ==
  /\ pc = "drain"
  /\ Len(rx) = 0
  /\ pc' = "eval"
  /\ i' = 1
  /\ UNCHANGED << kSensorStates, wordBits, rx, tx, buffer_, tick, buttonCalls,
                  lastCall, reads, evaluated, hmaOut, arrivals, arrivedInDrain,
                  lineFirst, lineLen >>
  /\ UNCHANGED studyVars

\* while (Serial.available() > 0) is false: the drain step is over
DrainExit ==
  /\ pc = "drain"
  /\ Len(rx) = 0
  /\ pc' = "eval"
  /\ i' = 0
  /\ UNCHANGED << kSensorStates, wordBits, rx, tx, buffer_, tick, buttonCalls,
                  lastCall, reads, evaluated, hmaOut, arrivals, arrivedInDrain,
                  lineFirst, lineLen >>
  /\ UNCHANGED studyVars

\* one iteration of the while loop that reads no byte: return
DrainReturn ==
  /\ pc = "drain"
  /\ Len(rx) > 0
  /\ LET r == readBytesUntil(rx, Ascii.nl, kBufferSize - 1)
     IN  /\ Len(r.data) = 0
         /\ rx' = r.rest
         /\ buffer_' = r.data
         /\ ReadTracks(r, TRUE)
  /\ pc' = "eval"
  /\ i' = 0
  /\ UNCHANGED << kSensorStates, wordBits, tx, tick, buttonCalls, lastCall,
                  reads, evaluated, hmaOut, arrivals, arrivedInDrain >>
  /\ UNCHANGED studyVars

\* one iteration of the while loop that reads a line and dispatches it
DrainLine ==
  /\ pc = "drain"
  /\ Len(rx) > 0
  /\ LET r == readBytesUntil(rx, Ascii.nl, kBufferSize - 1)
         d == Dispatch(kSensorStates, r.data)
     IN  /\ Len(r.data) > 0
         /\ rx' = r.rest
         /\ buffer_' = r.data
         /\ ReadTracks(r, Len(r.data) + Len(r.rest) < Len(rx))
         /\ kSensorStates' = d.sensors
         /\ tx' = tx \o d.out
  /\ UNCHANGED << wordBits, pc, i, tick, buttonCalls, lastCall, reads,
                  evaluated, hmaOut, arrivals, arrivedInDrain >>
  /\ UNCHANGED studyVars

\* one iteration of the for loop: kSensorStates[i].EvaluateSensor(i + 1, curMillis)
Evaluate ==
  /\ pc = "eval"
  /\ i < kNumSensors
  /\ \E sensor_value \in AnalogValues(kSensorStates[i].pin_value_) :
       LET e == EvaluateSensor(kSensorStates[i], sensor_value, i + 1, tick,
                               wordBits)
       IN  /\ kSensorStates' = [kSensorStates EXCEPT ![i] = e.s]
           /\ buttonCalls' = buttonCalls \o e.calls
           /\ lastCall' = IF e.calls = << >> THEN lastCall
                          ELSE [lastCall EXCEPT
                                  ![i + 1] = e.calls[Len(e.calls)].fn]
           /\ hmaOut' = [hmaOut EXCEPT ![i] = e.hma]
  /\ reads' = [reads EXCEPT ![kSensorStates[i].pin_value_] = @ + 1]
  /\ evaluated' = Append(evaluated, i)
  /\ i' = i + 1
  /\ UNCHANGED << wordBits, rx, tx, buffer_, pc, tick, arrivals,
                  arrivedInDrain, lineFirst, lineLen >>
  /\ UNCHANGED studyVars

\* the for loop is over and the tick ends; the clock is not read here, the
\* pacing delay that follows is PacingDelay, studied in PaceSpec
LoopEnd ==
  /\ pc = "eval"
  /\ i >= kNumSensors
  /\ pc' = "loop"
  /\ tick' = tick + 1
  /\ UNCHANGED << kSensorStates, wordBits, rx, tx, buffer_, i, buttonCalls,
                  lastCall, reads, evaluated, hmaOut, arrivals, arrivedInDrain,
                  lineFirst, lineLen >>
  /\ UNCHANGED studyVars

Next ==
  \/ Arrive
  \/ LoopStart
  \/ DrainExit
  \/ DrainReturn
  \/ DrainLine
  \/ Evaluate
  \/ LoopEnd

Spec == Init /\ [][Next]_vars

ProtoNext ==
  \/ SendLine
  \/ LoopStart
  \/ DrainExit
  \/ DrainReturn
  \/ DrainLine
  \/ Evaluate
  \/ LoopEnd

ProtoSpec == Init /\ [][ProtoNext]_vars

\* a host that keeps sending: an "o" line or an empty line whenever fewer
\* than MaxQueued bytes wait in the queue
Flood ==
  /\ Len(rx) < MaxQueued
  /\ arrivals' = arrivals
  /\ \E chunk \in { <<Ascii.o, Ascii.nl>>, <<Ascii.nl>> } : Receive(chunk)

\* the steps of the program: loop() runs on without end
Program ==
  \/ LoopStart
  \/ DrainExit
  \/ DrainReturn
  \/ DrainLine
  \/ Evaluate
  \/ LoopEnd

LiveNext == Flood \/ Program

LiveSpec == Init /\ [][LiveNext]_vars /\ WF_vars(Program)

(* ------------------------- the pacing on its own ----------------------- *)

\* setup() is about to run
PaceInit == Constructed /\ pc = "setup" /\ Unpaced /\ NoFilter

\* setup() measures what a delay of 1000 microseconds takes
Setup ==
  /\ pc = "setup"
  /\ \E elapsed \in ElapsedValues :
       delayOverhead' = SetupOverhead(U32(elapsed))
  /\ pc' = "loop"
  /\ UNCHANGED << wordBits, programVars, duration, delayed, wma, wmaRet,
                  history, hull, hullRet, hullFirst, wmaFirst >>

\* the first and the last lines of loop(): the tick took dur microseconds
Pace ==
  /\ pc \in {"loop", "paced"}
  /\ \E dur \in DurationValues :
       /\ duration' = U32(dur)
       /\ delayed' = PacingDelay(delayOverhead, U32(dur), wordBits)
  /\ pc' = "paced"
  /\ UNCHANGED << wordBits, programVars, delayOverhead, wma, wmaRet, history,
                  hull, hullRet, hullFirst, wmaFirst >>

PaceNext == Setup \/ Pace

PaceSpec == PaceInit /\ [][PaceNext]_vars

(* ------------------- WeightedMovingAverage on its own ------------------ *)

\* a filter of some capacity is constructed
FilterInit ==
  /\ Constructed /\ pc = "filter" /\ Unpaced
  /\ wma \in { WeightedMovingAverage(c) : c \in 1..MaxCap }
  /\ wmaRet = 0
  /\ history = << >>
  /\ hull = << >>
  /\ hullRet = 0
  /\ hullFirst = 0
  /\ wmaFirst = 0

\* wma.GetAverage(value)
Observe ==
  /\ pc = "filter"
  /\ Len(history) < MaxObserve
  /\ \E value \in Samples :
       LET r == WMA_GetAverage(wma, value, wordBits)
       IN  /\ wma' = r.w
           /\ wmaRet' = r.ret
           /\ history' = Append(history, value)
  /\ UNCHANGED << wordBits, pc, programVars, delayOverhead, duration, delayed,
                  hull, hullRet, hullFirst, wmaFirst >>

FilterNext == Observe

FilterSpec == FilterInit /\ [][FilterNext]_vars

(* --------------------- HullMovingAverage on its own -------------------- *)

\* a Hull filter as the sensors have it, and one WeightedMovingAverage of the
\* same window; all samples before the first one were 0
StepInit ==
  /\ Constructed /\ pc = "step" /\ Unpaced
  /\ wma = WeightedMovingAverage(kWindowSize)
  /\ wmaRet = 0
  /\ history = << >>
  /\ hull = HullMovingAverage(kWindowSize)
  /\ hullRet = 0
  /\ hullFirst = 0
  /\ wmaFirst = 0

\* the number of the first sample at which ret was 900 or more
FirstSettled(first, ret) ==
  IF first = 0 /\ ret >= 900 THEN Len(history) + 1 ELSE first

\* hull.GetAverage(value) and wma.GetAverage(value) on the same sample
Step ==
  /\ pc = "step"
  /\ Len(history) < MaxSteps
  /\ \E value \in StepValues(history) :
       LET h == HMA_GetAverage(hull, value, wordBits)
           w == WMA_GetAverage(wma, value, wordBits)
       IN  /\ hull' = h.h
           /\ hullRet' = h.ret
           /\ hullFirst' = FirstSettled(hullFirst, h.ret)
           /\ wma' = w.w
           /\ wmaRet' = w.ret
           /\ wmaFirst' = FirstSettled(wmaFirst, w.ret)
           /\ history' = Append(history, value)
  /\ UNCHANGED << wordBits, pc, programVars, delayOverhead, duration, delayed >>

StepNext == Step

StepSpec == StepInit /\ [][StepNext]_vars

(* ------------------------- reading the steps -------------------------- *)

Thresholds == [k \in Sensors |-> kSensorStates[k].user_threshold_]
Offsets == [k \in Sensors |-> kSensorStates[k].offset_]
States == [k \in Sensors |-> kSensorStates[k].state_]

\* the step is EvaluateSensor of sensor i
EvaluateStep == pc = "eval" /\ i' = i + 1

\* the step is an iteration of the drain loop, which takes bytes off the queue
ReadStep == pc = "drain" /\ Len(rx') < Len(rx)

\* the bytes the step took off the queue, and the line among them
Consumed == SubSeq(rx, 1, Len(rx) - Len(rx'))
LineRead ==
  IF Consumed # << >> /\ Consumed[Len(Consumed)] = Ascii.nl
  THEN SubSeq(Consumed, 1, Len(Consumed) - 1) ELSE Consumed

\* the actuation calls the step makes, and those for one button
NewCalls ==
  IF Len(buttonCalls') >= Len(buttonCalls)
  THEN SubSeq(buttonCalls', Len(buttonCalls) + 1, Len(buttonCalls'))
  ELSE << >>
CallsFor(b, calls) == SelectSeq(calls, LAMBDA c : c.button_num = b)

CommandBytes == {Ascii.o, Ascii.O, Ascii.v, Ascii.V, Ascii.t, Ascii.T}

RECURSIVE Decimal(_)
\* value of a string of decimal digits
Decimal(str) ==
  IF str = << >> THEN 0
  ELSE 10 * Decimal(SubSeq(str, 1, Len(str) - 1))
       + (str[Len(str)] - Ascii.zero)

AllDigits(str) == \A k \in 1..Len(str) : IsDigit(str[k])

\* the step reads, at the start of a host line, a whole line that fits the
\* read buffer
ReadsWholeLine ==
  /\ ReadStep
  /\ lineFirst = -1
  /\ Len(Consumed) = Len(LineRead) + 1

\* "t", then a space and the decimal of each threshold, then a newline
Report(thresholds) ==
  << Ascii.t >>
  \o << Ascii.sp >> \o print(thresholds[0])
  \o << Ascii.sp >> \o print(thresholds[1])
  \o << Ascii.sp >> \o print(thresholds[2])
  \o << Ascii.sp >> \o print(thresholds[3])
  \o << Ascii.nl >>

Press(b) == [fn |-> "ButtonPress", button_num |-> b]
Release(b) == [fn |-> "ButtonRelease", button_num |-> b]

(* ------------------------------- claims -------------------------------- *)

\* C1: in every EvaluateSensor call, with filtered = the filter's output minus
\* the offset and padding 1: the sensor goes OFF -> ON, with one ButtonPress,
\* iff it was OFF and filtered >= threshold + 1; it goes ON -> OFF, with one
\* ButtonRelease, iff it was ON and filtered < threshold - 1; otherwise the
\* state stays and no call is made, in particular whenever filtered lies in
\* [threshold - 1, threshold].
C1_Hysteresis ==
  [][ EvaluateStep =>
        LET s == kSensorStates[i]
            after == kSensorStates'[i]
            filtered == hmaOut'[i] - s.offset_
            T == s.user_threshold_
            up == s.state_ = "OFF" /\ filtered >= T + 1
            down == s.state_ = "ON" /\ filtered < T - 1
        IN  /\ after.cur_value_ = filtered
            /\ up <=> (s.state_ = "OFF" /\ after.state_ = "ON")
            /\ up <=> (NewCalls = << Press(i + 1) >>)
            /\ down <=> (s.state_ = "ON" /\ after.state_ = "OFF")
            /\ down <=> (NewCalls = << Release(i + 1) >>)
            /\ (~up /\ ~down) =>
                 (after.state_ = s.state_ /\ NewCalls = << >>)
            /\ (filtered >= T - 1 /\ filtered <= T) =>
                 (after.state_ = s.state_ /\ NewCalls = << >>) ]_vars

\* a sensor was pressed in this tick with filtered exactly threshold + 1
W_C1 ==
  \E k \in Sensors :
    /\ pc = "eval"
    /\ k < i
    /\ kSensorStates[k].state_ = "ON"
    /\ kSensorStates[k].cur_value_ = kSensorStates[k].user_threshold_ + 1
    /\ CallsFor(k + 1, buttonCalls) = << Press(k + 1) >>

\* C2: per button, ButtonPress and ButtonRelease alternate, starting with
\* ButtonPress, whatever commands are processed between the evaluations.
C2_Alternate ==
  [][ \A b \in 1..kNumSensors :
        LET new == CallsFor(b, NewCalls)
            seq == << lastCall[b] >> \o [j \in 1..Len(new) |-> new[j].fn]
        IN  \A j \in 1..(Len(seq) - 1) :
              \/ seq[j] \in {"none", "ButtonRelease"} /\ seq[j + 1] = "ButtonPress"
              \/ seq[j] = "ButtonPress" /\ seq[j + 1] = "ButtonRelease" ]_vars

\* a button was pressed and later released
W_C2 ==
  \E b \in 1..kNumSensors :
    /\ lastCall[b] = "ButtonRelease"
    /\ kSensorStates[b - 1].state_ = "OFF"

\* C3: the command o sets every sensor's offset to the filter's latest output
\* as it was before the offset was subtracted.
CE_C3 ==
  [][ (ReadStep /\ LineRead # << >> /\ LineRead[1] \in {Ascii.o, Ascii.O}) =>
        \A k \in Sensors : kSensorStates'[k].offset_ = hmaOut[k] ]_vars

\* C4: a whole line of 2 to 5 bytes, a sensor index d < 4 followed by decimal
\* digits of value x, sets threshold d to x, leaves the other thresholds, and
\* prints one report of the thresholds after the update; "3180" on thresholds
\* of 200 prints "t 200 200 200 180".
C4_SetThreshold ==
  [][ ( /\ ReadsWholeLine
        /\ Len(LineRead) \in 2..5
        /\ LineRead[1] \in Ascii.zero..(Ascii.zero + kNumSensors - 1)
        /\ AllDigits(Tail(LineRead)) ) =>
        LET d == LineRead[1] - Ascii.zero
            x == Decimal(Tail(LineRead))
        IN  /\ Thresholds' = [Thresholds EXCEPT ![d] = x]
            /\ tx' = tx \o Report(Thresholds')
            /\ ( /\ LineRead = <<51, 49, 56, 48>>
                 /\ Thresholds = [k \in Sensors |-> 200] ) =>
                 tx' = tx \o <<116, 32, 50, 48, 48, 32, 50, 48, 48, 32,
                               50, 48, 48, 32, 49, 56, 48, 10>> ]_vars

\* "3180" was processed on thresholds of 200: the report is on the wire
W_C4 ==
  /\ buffer_ = <<51, 49, 56, 48>>
  /\ Thresholds = [k \in Sensors |-> IF k = 3 THEN 180 ELSE 200]
  /\ tx = <<116, 32, 50, 48, 48, 32, 50, 48, 48, 32,
            50, 48, 48, 32, 49, 56, 48, 10>>

\* the step reads, at the start of a host line, a line of at most 63 bytes
FitsBuffer ==
  /\ ReadStep
  /\ lineFirst = -1
  /\ \/ Len(Consumed) = Len(LineRead) + 1
     \/ /\ Len(LineRead) = kBufferSize - 1
        /\ rx' # << >>
        /\ rx'[1] = Ascii.nl

\* C5: a line that fits the buffer, does not start with o, O, v, V, t or T,
\* and has a length outside 2..5 or a first byte that is no sensor index
\* changes no threshold, offset or activation state and prints nothing.
C5_Ignored ==
  [][ ( /\ FitsBuffer
        /\ Len(LineRead) >= 1
        /\ LineRead[1] \notin CommandBytes
        /\ \/ Len(LineRead) \notin 2..5
           \/ LineRead[1] \notin Ascii.zero..(Ascii.zero + kNumSensors - 1) ) =>
        /\ Thresholds' = Thresholds
        /\ Offsets' = Offsets
        /\ States' = States
        /\ tx' = tx ]_vars

\* "9999" was read in this drain step and left no trace
W_C5 ==
  /\ pc = "drain"
  /\ buffer_ = <<57, 57, 57, 57>>
  /\ rx = << >>
  /\ tx = << >>
  /\ Thresholds = [k \in Sensors |-> kDefaultThreshold]

\* C6: a line longer than 63 bytes that does not start with o, O, v, V, t or T
\* is ignored as one line: neither its first 63 bytes nor the bytes after them
\* change a threshold or an offset or print a report.
CE_C6 ==
  [][ ( /\ ReadStep
        /\ \/ /\ lineFirst = -1
              /\ Len(Consumed) = kBufferSize - 1
              /\ Len(LineRead) = kBufferSize - 1
              /\ LineRead[1] \notin CommandBytes
           \/ /\ lineFirst \notin ({-1} \cup CommandBytes)
              /\ lineLen >= kBufferSize - 1 ) =>
        /\ Thresholds' = Thresholds
        /\ Offsets' = Offsets
        /\ tx' = tx ]_vars

RECURSIVE DigitRun(_)
\* the leading run of decimal digits of a string
DigitRun(str) ==
  IF str = << >> \/ ~IsDigit(str[1]) THEN << >>
  ELSE << str[1] >> \o DigitRun(Tail(str))

\* C7: an accepted set-threshold line sets the threshold to the value of the
\* leading run of decimal digits after the index byte, 0 when there is none,
\* so to a value in 0..9999.
CE_C7 ==
  [][ ( /\ ReadsWholeLine
        /\ Len(LineRead) \in 2..5
        /\ LineRead[1] \in Ascii.zero..(Ascii.zero + kNumSensors - 1) ) =>
        LET d == LineRead[1] - Ascii.zero
        IN  /\ Thresholds'[d] = Decimal(DigitRun(Tail(LineRead)))
            /\ Thresholds'[d] \in 0..9999 ]_vars

\* C8: when the drain step returns and no byte arrived during it, every byte
\* queued at its start has been consumed.
CE_C8 ==
  [][ (pc = "drain" /\ pc' = "eval" /\ ~arrivedInDrain) => rx' = << >> ]_vars

\* C9: the drain step of every tick ends: the sensor evaluation of the tick
\* is always reached, also while the host keeps sending.
CE_C9 == (pc = "drain") ~> (pc = "eval")

\* C10: in every tick the lines are read and the commands take effect before
\* any sensor is evaluated; then the sensors are evaluated once each, in the
\* order 0..3, with one analogRead per pin; an evaluation uses the threshold
\* and the offset as the drain step left them.
C10_TickOrder ==
  /\ [] ( /\ pc = "drain" =>
               (evaluated = << >> /\ reads = [k \in Sensors |-> 0])
          /\ pc = "eval" =>
               /\ evaluated = [j \in 1..i |-> j - 1]
               /\ reads = [k \in Sensors |-> IF k < i THEN 1 ELSE 0]
          /\ (pc = "loop" /\ tick > 0) =>
               /\ evaluated = <<0, 1, 2, 3>>
               /\ reads = [k \in Sensors |-> 1] )
  /\ [][ /\ ( \/ ReadStep
              \/ Thresholds' # Thresholds
              \/ Offsets' # Offsets
              \/ Len(tx') > Len(tx) ) =>
              (pc = "drain" /\ evaluated = << >> /\ evaluated' = << >>)
         /\ EvaluateStep =>
              /\ kSensorStates'[i].cur_value_ = hmaOut'[i] - Offsets[i]
              /\ kSensorStates'[i].state_ = "ON" =>
                   \/ kSensorStates[i].state_ = "ON"
                   \/ kSensorStates'[i].cur_value_ >= Thresholds[i] + 1 ]_vars

\* a tick is over in which "09" set threshold 0 and the evaluation pressed
\* button 1 on that threshold
W_C10 ==
  /\ pc = "loop"
  /\ tick = 1
  /\ evaluated = <<0, 1, 2, 3>>
  /\ Thresholds[0] = 9
  /\ States[0] = "ON"

\* C11: at the end of a tick the loop waits max(0, 1000 - delayOverhead -
\* duration) microseconds: nothing when delayOverhead + duration >= 1000,
\* and never more than 1000
CE_C11 ==
  pc = "paced" =>
    LET small == delayOverhead.hi = 0 /\ duration.hi = 0
                 /\ delayOverhead.lo + duration.lo < kPeriodMicros
        expected == IF small
                    THEN kPeriodMicros - delayOverhead.lo - duration.lo
                    ELSE 0
    IN  /\ delayed.us = U32(expected)
        /\ delayed.called = (expected > 0)

\* the window after the samples of history, oldest first: entry j of 1..c is
\* the sample c - j calls back, or the 0 the window started with
Window(c) ==
  [ j \in 1..c |->
      IF Len(history) - c + j >= 1 THEN history[Len(history) - c + j] ELSE 0 ]

RECURSIVE WeightedTotal(_, _, _)
\* sum over j in 1..n of f[j] when weighted is FALSE, of j * f[j] otherwise
WeightedTotal(f, n, weighted) ==
  IF n = 0 THEN 0
  ELSE (IF weighted THEN n * f[n] ELSE f[n]) + WeightedTotal(f, n - 1, weighted)

\* C12: after any sequence of GetAverage calls from the all-zero window,
\* cur_sum_ is the sum of the window, cur_weighted_sum_ its weighted sum
\* (newest entry weight c, oldest weight 1), and the cursor is in 0..c-1 and
\* points at the oldest entry
CE_C12 ==
  pc = "filter" =>
    LET c == wma.size_
        window == Window(c)
    IN  /\ wma.cur_sum_ = WeightedTotal(window, c, FALSE)
        /\ wma.cur_weighted_sum_ = WeightedTotal(window, c, TRUE)
        /\ wma.cur_count_ \in 0..(c - 1)
        /\ \A j \in 1..c :
             wma.values_[(wma.cur_count_ + j - 1) % c] = window[j]

\* the last n samples of history exist and all equal k
Repeated(k, n) ==
  /\ Len(history) >= n
  /\ \A j \in 1..n : history[Len(history) + 1 - j] = k

\* C13: once GetAverage has been called with k at least c times in a row,
\* a further GetAverage(k) returns k, for every k of the int16_t range
CE_C13 ==
  pc = "filter" =>
    \A k \in Samples : Repeated(k, wma.size_ + 1) => wmaRet = k

\* the samples so far are a step from 0 to 1000
StepTo1000 == pc = "step" /\ history # << >> /\ history[1] = 1000

\* C14: on a step from 0 to 1000 the Hull filter of window 100 is at 900 or
\* more strictly before a single WeightedMovingAverage of capacity 100 is,
\* and it is there within MaxSteps samples
C14_StepResponse ==
  StepTo1000 =>
    /\ wmaFirst # 0 => (hullFirst # 0 /\ hullFirst < wmaFirst)
    /\ wmaRet >= 900 => hullFirst # 0
    /\ Len(history) = MaxSteps => hullFirst # 0

W_C14 == StepTo1000 /\ wmaFirst # 0 /\ hullFirst # 0 /\ hullFirst < wmaFirst

\* C18: for samples in 0..1023, falls from 1023 to 0 included, every value
\* the Hull filter returns lies in -1023..2046
CE_C18 == pc = "step" => (hullRet >= -1023 /\ hullRet <= 2046)

CurValues == [k \in Sensors |-> kSensorStates[k].cur_value_]

\* tag, then a space and the decimal of each field, then a newline
ReportOf(tag, fields) ==
  << tag >>
  \o << Ascii.sp >> \o print(fields[0])
  \o << Ascii.sp >> \o print(fields[1])
  \o << Ascii.sp >> \o print(fields[2])
  \o << Ascii.sp >> \o print(fields[3])
  \o << Ascii.nl >>

SameBut(k, fields) ==
  \A f \in DOMAIN kSensorStates[k] \ fields :
    kSensorStates'[k][f] = kSensorStates[k][f]

\* C16: reading and dispatching a line changes no state_, makes no actuation
\* call and changes no filter; v and t change no field of any sensor; o
\* changes offsets only and prints nothing; any other line changes at most
\* the threshold of the sensor its first byte names; actuation calls are made
\* by EvaluateSensor only.
C16_Frame ==
  [][ /\ ReadStep =>
           LET first == IF buffer_' = << >> THEN Ascii.nl ELSE buffer_'[1]
           IN  /\ States' = States
               /\ buttonCalls' = buttonCalls
               /\ lastCall' = lastCall
               /\ \A k \in Sensors : SameBut(k, {"offset_", "user_threshold_"})
               /\ first \in {Ascii.v, Ascii.V, Ascii.t, Ascii.T, Ascii.nl} =>
                    kSensorStates' = kSensorStates
               /\ first \in {Ascii.o, Ascii.O} =>
                    /\ \A k \in Sensors : SameBut(k, {"offset_"})
                    /\ tx' = tx
               /\ first \notin CommandBytes =>
                    \A k \in Sensors :
                      /\ SameBut(k, {"user_threshold_"})
                      /\ k # first - Ascii.zero => SameBut(k, {})
      /\ NewCalls # << >> => EvaluateStep ]_vars

\* "05" lowered the threshold of the loaded sensor below its value: the press
\* is due and the sensor is still OFF
W_C16 ==
  /\ pc = "drain"
  /\ buffer_ = <<48, 53>>
  /\ Thresholds[0] = 5
  /\ CurValues[0] >= 6
  /\ States[0] = "OFF"
  /\ buttonCalls = << >>

\* C17: right after every EvaluateSensor the state agrees with the value it
\* computed and the threshold in force: ON implies cur_value_ >= threshold - 1
\* and OFF implies cur_value_ < threshold + 1.
C17_Consistent ==
  [][ EvaluateStep =>
        LET after == kSensorStates'[i]
        IN  /\ after.state_ = "ON" =>
                 after.cur_value_ >= after.user_threshold_ - kPaddingWidth
            /\ after.state_ = "OFF" =>
                 after.cur_value_ < after.user_threshold_ + kPaddingWidth ]_vars

\* a sensor evaluated in this tick is ON after its threshold was changed and
\* its offset taken
W_C17 ==
  \E k \in Sensors :
    /\ pc = "eval"
    /\ k < i
    /\ kSensorStates[k].state_ = "ON"
    /\ kSensorStates[k].user_threshold_ # kDefaultThreshold
    /\ kSensorStates[k].offset_ # 0
    /\ kSensorStates[k].cur_value_ >= kSensorStates[k].user_threshold_ - 1

\* C19: in one tick at most one actuation call is made per button, and one
\* EvaluateSensor makes at most one call.
C19_OneCall ==
  [][ /\ \A b \in 1..kNumSensors : Len(CallsFor(b, buttonCalls')) <= 1
      /\ EvaluateStep => Len(NewCalls) <= 1 ]_vars

\* a tick is over in which a button was released, and nothing else was called
W_C19 ==
  /\ pc = "loop"
  /\ buttonCalls = << Release(1) >>

====
